---- MODULE Spec2Model ----
(***************************************************************************)
(* Model of the notification service: the in-memory request ledger         *)
(* (app/core), the extraction pipeline orchestrator (app/services), the    *)
(* trigger route (app/api), the retrying provider client (app/infra) and   *)
(* the output sanitizer and validator (app/safety).                        *)
(*                                                                         *)
(* Coroutines are cut at their await points.  The ledger's transition and  *)
(* create bodies contain no await inside the lock, so each is one step.    *)
(***************************************************************************)
EXTENDS Integers, Sequences, FiniteSets, TLC

VARIABLES
    data,      \* the ledger: InMemoryRepository._data
    sem,       \* _pipeline_semaphore._value
    proc,      \* the trigger handlers and process_request coroutines
    caller,    \* coroutines that call the ledger's transition/update_status
    http,      \* status code of the trigger route's last response (0: none yet)
    budget,    \* provider responses still to be explored (NoCap: unbounded)
    client,    \* one call of a retrying client operation, taken alone
    call,      \* one call of the sanitizer or the validator, taken alone
    lock       \* InMemoryRepository._lock.locked()

vars == <<data, sem, proc, caller, http, budget, client, call, lock>>

-----------------------------------------------------------------------------
(* Bounds of the model *)

MaxIds == 2                  \* request ids that can be created
NumTasks == 2                \* trigger and process_request coroutines of Spec
ExtraTasks == 1              \* process_request coroutines beyond the limiter's slots
MaxLimiterResponses == 1     \* provider responses explored by SpecLimiter

-----------------------------------------------------------------------------
(* An Optional result is a record [ok, v]; ok = FALSE is None.             *)

None == [ok |-> FALSE, v |-> ""]
Some(x) == [ok |-> TRUE, v |-> x]

\* no client call and no sanitizer or validator call under way
IdleClient ==
    [op |-> "", log |-> <<>>, outcome |-> "", exc |-> [kind |-> "none", code |-> 0], ret |-> ""]
IdleCall == [fn |-> "", pc |-> ""]

-----------------------------------------------------------------------------
(* core/state.py *)

QUEUED == "queued"
PROCESSING == "processing"
SENT == "sent"
FAILED == "failed"

RequestStatus == {QUEUED, PROCESSING, SENT, FAILED}

\* a graph in which the two final states lead to each other
ALLOWED_TRANSITIONS_cyclic ==
    [s \in RequestStatus |->
        CASE s = QUEUED -> {PROCESSING}
          [] s = PROCESSING -> {SENT, FAILED}
          [] s = SENT -> {FAILED}
          [] s = FAILED -> {SENT}]

ALLOWED_TRANSITIONS ==
    [s \in RequestStatus |->
        CASE s = QUEUED -> {PROCESSING}
          [] s = PROCESSING -> {SENT, FAILED}
          [] s = SENT -> {}
          [] s = FAILED -> {}]

\* a check that accepts every target
can_transition_any(from_status, to_status) ==
    to_status \in RequestStatus

can_transition(from_status, to_status) ==
    IF from_status \in DOMAIN ALLOWED_TRANSITIONS
    THEN to_status \in ALLOWED_TRANSITIONS[from_status]
    ELSE FALSE

-----------------------------------------------------------------------------
(* core/repository.py: the ledger is the dict _data, here the function      *)
(* d from the ids created so far to their entries.                         *)

IdSpace == 1..MaxIds
Inputs == {"email jane@co.io saying hi"}

repo_get(d, req_id) ==
    IF req_id \in DOMAIN d THEN Some(d[req_id]) ELSE None

repo_exists(d, req_id) == req_id \in DOMAIN d

\* an identifier source that hands out one identifier again and again
uuid4_repeated(d) == CHOOSE i \in IdSpace : \A j \in IdSpace : i <= j

\* str(uuid.uuid4()): a token no entry has yet.  Tokens are opaque, so the
\* unused token taken is the least one; a collision of two random tokens is
\* not modelled.
uuid4(d) == CHOOSE i \in IdSpace \ DOMAIN d : \A j \in IdSpace \ DOMAIN d : i <= j

repo_create(d, req_id, user_input) ==
    [i \in DOMAIN d \cup {req_id} |->
        IF i = req_id THEN [user_input |-> user_input, status |-> QUEUED]
        ELSE d[i]]

\* a transition that does not consult can_transition
transition_unchecked(d, req_id, new_status) ==
    IF req_id \notin DOMAIN d
    THEN [data |-> d, ret |-> FALSE]
    ELSE [data |-> [d EXCEPT ![req_id].status = new_status], ret |-> TRUE]

\* transition: the new ledger and the returned flag
transition(d, req_id, new_status) ==
    IF req_id \notin DOMAIN d
    THEN [data |-> d, ret |-> FALSE]
    ELSE IF ~can_transition(d[req_id].status, new_status)
    THEN [data |-> d, ret |-> FALSE]
    ELSE [data |-> [d EXCEPT ![req_id].status = new_status], ret |-> TRUE]

update_status(d, req_id, new_status) ==
    transition(d, req_id, new_status).data

-----------------------------------------------------------------------------
(* Text helpers.  Texts are strings; Ch(s, i) is the i-th character.        *)
(* Scans over a text are written with index sets, not one recursive call   *)
(* a character.                                                            *)

Ch(s, i) == SubSeq(s, i, i)

Min(S) == CHOOSE k \in S : \A m \in S : k <= m
Max(S) == CHOOSE k \in S : \A m \in S : k >= m

\* "".join(parts[lo..hi]) for a sequence of texts
RECURSIVE join_range(_, _, _)
join_range(parts, lo, hi) ==
    IF lo > hi THEN ""
    ELSE IF lo = hi THEN parts[lo]
    ELSE LET mid == (lo + hi) \div 2
         IN  join_range(parts, lo, mid) \o join_range(parts, mid + 1, hi)

join(parts) == join_range(parts, 1, Len(parts))

Digits == {"0", "1", "2", "3", "4", "5", "6", "7", "8", "9"}
UpperAlphabet == "ABCDEFGHIJKLMNOPQRSTUVWXYZ"
LowerAlphabet == "abcdefghijklmnopqrstuvwxyz"
Upper == {Ch(UpperAlphabet, i) : i \in 1..26}
Lower == {Ch(LowerAlphabet, i) : i \in 1..26}
Letters == Upper \cup Lower

\* \s of the re module and the characters str.strip() removes
IsSpace(c) == c \in {" ", "\t", "\n", "\r", "\f"}
\* \w of the re module
IsWord(c) == c \in Letters \cup Digits \cup {"_"}

\* the first index from i on that holds no whitespace (Len(s) + 1 if none)
lstrip_from(s, i) ==
    IF i > Len(s) THEN i
    ELSE Min({k \in i..(Len(s) + 1) : k = Len(s) + 1 \/ ~IsSpace(Ch(s, k))})

\* the last index up to j that holds no whitespace (0 if none)
rstrip_to(s, j) ==
    IF j < 1 THEN j
    ELSE Max({k \in 0..j : k = 0 \/ ~IsSpace(Ch(s, k))})

\* str.strip()
strip(s) == SubSeq(s, lstrip_from(s, 1), rstrip_to(s, Len(s)))

lower_char(c) ==
    IF c \in Upper
    THEN Ch(LowerAlphabet, CHOOSE i \in 1..26 : Ch(UpperAlphabet, i) = c)
    ELSE c

\* str.lower()
lower(s) == join([i \in 1..Len(s) |-> lower_char(Ch(s, i))])

\* str.find(sub, start): index of the first occurrence at or after start, 0 if none
find_from(s, sub, i) ==
    LET hits == {k \in i..(Len(s) - Len(sub) + 1) : SubSeq(s, k, k + Len(sub) - 1) = sub}
    IN  IF hits = {} THEN 0 ELSE Min(hits)

-----------------------------------------------------------------------------
(* json.loads, strict parsing.  A parsed value is a record [t, v]:          *)
(*   "str" with its text, "num" with its literal, "lit" with true, false    *)
(*   or null, "arr" with the sequence of its items, "obj" with the          *)
(*   sequence of its <<key, value>> pairs in insertion order.               *)
(* A failed parse (JSONDecodeError) has ok = FALSE.                         *)

IsJsonWs(c) == c \in {" ", "\t", "\n", "\r"}

skip_ws(s, i) ==
    IF i > Len(s) THEN i
    ELSE Min({k \in i..(Len(s) + 1) : k = Len(s) + 1 \/ ~IsJsonWs(Ch(s, k))})

ParseFail == [ok |-> FALSE, v |-> [t |-> "lit", v |-> "null"], next |-> 0]
ParseOk(val, nxt) == [ok |-> TRUE, v |-> val, next |-> nxt]

\* dict assignment d[k] = v on a sequence of pairs
RECURSIVE dict_set(_, _, _)
dict_set(pairs, k, v) ==
    IF pairs = <<>> THEN << <<k, v>> >>
    ELSE IF Head(pairs)[1] = k THEN << <<k, v>> >> \o Tail(pairs)
    ELSE <<Head(pairs)>> \o dict_set(Tail(pairs), k, v)

dict_has(pairs, k) == \E i \in 1..Len(pairs) : pairs[i][1] = k
dict_get(pairs, k) == pairs[CHOOSE i \in 1..Len(pairs) : pairs[i][1] = k][2]

unescape(c) ==
    CASE c = "n" -> "\n"
      [] c = "t" -> "\t"
      [] c = "r" -> "\r"
      [] c = "f" -> "\f"
      [] OTHER -> c

\* the number of backslashes directly in front of index j, from index lo on
backslashes_before(s, j, lo) ==
    j - 1 - Max({m \in (lo - 1)..(j - 1) : m = lo - 1 \/ Ch(s, m) # "\\"})

\* inside a string that starts at index lo: s[k] is a backslash that escapes
\* the next character / s[k] is the character a backslash escapes
is_escape(s, k, lo) == Ch(s, k) = "\\" /\ backslashes_before(s, k, lo) % 2 = 0
is_escaped(s, k, lo) == backslashes_before(s, k, lo) % 2 = 1

\* the index of the quote q that closes a string whose body starts at lo,
\* 0 if the text ends inside the string
close_quote(s, lo, q) ==
    LET hits == {j \in lo..Len(s) : Ch(s, j) = q /\ ~is_escaped(s, j, lo)}
    IN  IF hits = {} THEN 0 ELSE Min(hits)

\* the string literal whose body starts at index lo (after its opening quote)
parse_string_body(s, lo) ==
    LET c == close_quote(s, lo, "\"")
        body == lo..(c - 1)
    IN  IF c = 0 THEN ParseFail
        ELSE IF \E k \in body : Ch(s, k) \in {"\n", "\t", "\r", "\f"} THEN ParseFail
        ELSE IF \E k \in body : is_escaped(s, k, lo)
                    /\ Ch(s, k) \notin {"\"", "\\", "/", "n", "t", "r", "f"}
        THEN ParseFail
        ELSE ParseOk([t |-> "str",
                      v |-> join([n \in 1..(c - lo) |->
                                 LET k == lo + n - 1
                                 IN  IF is_escaped(s, k, lo) THEN unescape(Ch(s, k))
                                     ELSE IF is_escape(s, k, lo) THEN ""
                                     ELSE Ch(s, k)])],
                     c + 1)

\* the first index from i on that holds no digit
digits_end(s, i) ==
    IF i > Len(s) THEN i
    ELSE Min({k \in i..(Len(s) + 1) : k = Len(s) + 1 \/ Ch(s, k) \notin Digits})

\* -?(0|[1-9]\d*)(\.\d+)?
parse_number(s, i) ==
    LET a == IF i <= Len(s) /\ Ch(s, i) = "-" THEN i + 1 ELSE i
        b == IF a <= Len(s) /\ Ch(s, a) = "0" THEN a + 1 ELSE digits_end(s, a)
        c == IF b + 1 <= Len(s) /\ Ch(s, b) = "." /\ Ch(s, b + 1) \in Digits
             THEN digits_end(s, b + 1) ELSE b
    IN  IF b = a THEN ParseFail
        ELSE ParseOk([t |-> "num", v |-> SubSeq(s, i, c - 1)], c)

\* str.startswith(sub, i)
starts_with(s, sub, i) ==
    i + Len(sub) - 1 <= Len(s) /\ SubSeq(s, i, i + Len(sub) - 1) = sub

parse_literal(s, i) ==
    IF starts_with(s, "true", i) THEN ParseOk([t |-> "lit", v |-> "true"], i + 4)
    ELSE IF starts_with(s, "false", i) THEN ParseOk([t |-> "lit", v |-> "false"], i + 5)
    ELSE IF starts_with(s, "null", i) THEN ParseOk([t |-> "lit", v |-> "null"], i + 4)
    ELSE ParseFail

RECURSIVE parse_value(_, _)
RECURSIVE parse_members(_, _, _)
RECURSIVE parse_items(_, _, _)

\* s[i] is the first character of a value
parse_value(s, i) ==
    IF i > Len(s) THEN ParseFail
    ELSE IF Ch(s, i) = "\"" THEN parse_string_body(s, i + 1)
    ELSE IF Ch(s, i) = "{"
         THEN LET j == skip_ws(s, i + 1)
              IN  IF j <= Len(s) /\ Ch(s, j) = "}"
                  THEN ParseOk([t |-> "obj", v |-> <<>>], j + 1)
                  ELSE parse_members(s, j, <<>>)
    ELSE IF Ch(s, i) = "["
         THEN LET j == skip_ws(s, i + 1)
              IN  IF j <= Len(s) /\ Ch(s, j) = "]"
                  THEN ParseOk([t |-> "arr", v |-> <<>>], j + 1)
                  ELSE parse_items(s, j, <<>>)
    ELSE IF Ch(s, i) \in Digits \cup {"-"} THEN parse_number(s, i)
    ELSE parse_literal(s, i)

\* s[i] must open the key of the next member of an object
parse_members(s, i, acc) ==
    IF i > Len(s) \/ Ch(s, i) # "\"" THEN ParseFail
    ELSE LET k == parse_string_body(s, i + 1)
         IN  IF ~k.ok THEN ParseFail
             ELSE LET c == skip_ws(s, k.next)
                  IN  IF c > Len(s) \/ Ch(s, c) # ":" THEN ParseFail
                      ELSE LET val == parse_value(s, skip_ws(s, c + 1))
                           IN  IF ~val.ok THEN ParseFail
                               ELSE LET e == skip_ws(s, val.next)
                                        acc2 == dict_set(acc, k.v.v, val.v)
                                    IN  IF e > Len(s) THEN ParseFail
                                        ELSE IF Ch(s, e) = "}"
                                        THEN ParseOk([t |-> "obj", v |-> acc2], e + 1)
                                        ELSE IF Ch(s, e) = ","
                                        THEN parse_members(s, skip_ws(s, e + 1), acc2)
                                        ELSE ParseFail

\* s[i] is the first character of the next item of an array
parse_items(s, i, acc) ==
    LET val == parse_value(s, i)
    IN  IF ~val.ok THEN ParseFail
        ELSE LET e == skip_ws(s, val.next)
                 acc2 == Append(acc, val.v)
             IN  IF e > Len(s) THEN ParseFail
                 ELSE IF Ch(s, e) = "]"
                 THEN ParseOk([t |-> "arr", v |-> acc2], e + 1)
                 ELSE IF Ch(s, e) = ","
                 THEN parse_items(s, skip_ws(s, e + 1), acc2)
                 ELSE ParseFail

\* json.loads(s): the whole text is one value between optional whitespace
json_loads(s) ==
    LET r == parse_value(s, skip_ws(s, 1))
    IN  IF r.ok /\ skip_ws(s, r.next) = Len(s) + 1 THEN r ELSE ParseFail

json_escape(c) ==
    CASE c = "\"" -> "\\\""
      [] c = "\\" -> "\\\\"
      [] c = "\n" -> "\\n"
      [] c = "\t" -> "\\t"
      [] c = "\r" -> "\\r"
      [] c = "\f" -> "\\f"
      [] OTHER -> c

\* json.dumps of a str
json_dumps(s) == "\"" \o join([i \in 1..Len(s) |-> json_escape(Ch(s, i))]) \o "\""

-----------------------------------------------------------------------------
(* safety/sanitizer.py *)

\* a backtick can only be written in a string that closes it with a quote
Backtick == SubSeq("`'", 1, 1)
Fence == Backtick \o Backtick \o Backtick

\* re.search of the fence pattern, fence (?:json)? \s* ([\s\S]*?) \s* fence,
\* in raw: group 1, or None.
\* A match starts at the first fence that has another fence after it; the
\* optional tag and the whitespace after it are taken greedily, the group
\* lazily up to the whitespace in front of the next fence.
fence_group(raw) ==
    LET p == find_from(raw, Fence, 1)
    IN  IF p = 0 \/ find_from(raw, Fence, p + 3) = 0 THEN None
        ELSE LET a == IF starts_with(raw, "json", p + 3) THEN p + 7 ELSE p + 3
                 q == lstrip_from(raw, a)
                 c == find_from(raw, Fence, q)
                 r == rstrip_to(raw, c - 1) + 1
                 e == IF r < q THEN q ELSE r
             IN  Some(SubSeq(raw, q, e - 1))

\* the loop of _extract_json_block over raw[start:], from index i outside
\* a string with the given depth.  The loop changes its variables only at
\* braces and quotes, so it is run from one of them to the next; a string
\* runs to its closing quote, the first quote_char no backslash escapes.
RECURSIVE balanced_scan(_, _, _, _)
RECURSIVE balanced_scan_all_braces(_, _, _, _)

\* a scan that counts every brace, in a string or not
balanced_scan_all_braces(raw, start, i, depth) ==
    LET marks == {k \in i..Len(raw) : Ch(raw, k) \in {"{", "}"}}
        k == Min(marks)
    IN  IF marks = {} THEN None
        ELSE IF Ch(raw, k) = "{" THEN balanced_scan_all_braces(raw, start, k + 1, depth + 1)
        ELSE IF depth - 1 = 0 THEN Some(SubSeq(raw, start, k))
        ELSE balanced_scan_all_braces(raw, start, k + 1, depth - 1)

balanced_scan(raw, start, i, depth) ==
    LET marks == {k \in i..Len(raw) : Ch(raw, k) \in {"{", "}", "\"", "'"}}
        k == Min(marks)
        c == Ch(raw, k)
        close == close_quote(raw, k + 1, c)
    IN  IF marks = {} THEN None
        ELSE IF c = "{" THEN balanced_scan(raw, start, k + 1, depth + 1)
        ELSE IF c = "}"
        THEN IF depth - 1 = 0
             THEN Some(SubSeq(raw, start, k))
             ELSE balanced_scan(raw, start, k + 1, depth - 1)
        ELSE IF close = 0 THEN None
        ELSE balanced_scan(raw, start, close + 1, depth)

_extract_json_block(raw) ==
    IF raw = "" \/ strip(raw) = "" THEN None
    ELSE LET code_match == fence_group(raw)
         IN  IF code_match.ok THEN Some(strip(code_match.v))
             ELSE LET start == find_from(raw, "{", 1)
                  IN  IF start = 0 THEN None
                      ELSE balanced_scan(raw, start, start, 0)

\* json.loads under try/except JSONDecodeError
_attempt_parse(candidate) ==
    LET r == json_loads(candidate)
    IN  IF r.ok THEN Some(r.v) ELSE None

\* re.sub(r"'([^']*)'", lambda m: json.dumps(m.group(1)), s), from index i
RECURSIVE sub_single_quotes(_, _)
sub_single_quotes(s, i) ==
    LET k == find_from(s, "'", i)
        j == find_from(s, "'", k + 1)
    IN  IF k = 0 \/ j = 0 THEN SubSeq(s, i, Len(s))
        ELSE SubSeq(s, i, k - 1) \o json_dumps(SubSeq(s, k + 1, j - 1))
             \o sub_single_quotes(s, j + 1)

\* the first index from i on that holds no word character
word_end(s, i) ==
    IF i > Len(s) THEN i
    ELSE Min({k \in i..(Len(s) + 1) : k = Len(s) + 1 \/ ~IsWord(Ch(s, k))})

\* s[k] starts a match of (\w+)\s*: when the search is at index i
key_match(s, k, i) ==
    /\ IsWord(Ch(s, k))
    /\ k = i \/ ~IsWord(Ch(s, k - 1))
    /\ LET w == lstrip_from(s, word_end(s, k))
       IN  w <= Len(s) /\ Ch(s, w) = ":"

\* re.sub(r"(\w+)\s*:", r'"\1":', s), from index i
RECURSIVE sub_bare_keys(_, _)
sub_bare_keys(s, i) ==
    LET starts == {k \in i..Len(s) : key_match(s, k, i)}
        k == Min(starts)
        r == word_end(s, k)
        w == lstrip_from(s, r)
    IN  IF starts = {} THEN SubSeq(s, i, Len(s))
        ELSE SubSeq(s, i, k - 1) \o "\"" \o SubSeq(s, k, r - 1) \o "\":"
             \o sub_bare_keys(s, w + 1)

\* the result of the first json.loads that succeeds, or None
first_loaded(first, second) ==
    IF first.ok THEN Some(first.v)
    ELSE IF second.ok THEN Some(second.v)
    ELSE None

_attempt_repair(candidate) ==
    first_loaded(json_loads(sub_single_quotes(candidate, 1)),
                 json_loads(sub_bare_keys(candidate, 1)))

\* isinstance(x, dict) of an Optional parse result
is_dict(r) == r.ok /\ r.v.t = "obj"

\* the mapping as the sequence of its <<key, value>> pairs, or None
\* the isinstance tests of sanitize_llm_output on parsed, then on repaired
first_dict(parsed, repaired) ==
    IF is_dict(parsed) THEN Some(parsed.v.v)
    ELSE IF is_dict(repaired) THEN Some(repaired.v.v)
    ELSE None

\* sanitize_llm_output from its candidate on
sanitize_candidate(candidate) ==
    IF ~candidate.ok \/ candidate.v = "" THEN None
    ELSE first_dict(_attempt_parse(candidate.v), _attempt_repair(candidate.v))

sanitize_llm_output(raw) == sanitize_candidate(_extract_json_block(raw))

-----------------------------------------------------------------------------
(* safety/validation.py *)

_TO_KEYS == <<"to", "recipient", "destination">>
_MESSAGE_KEYS == <<"message", "body", "text">>
_TYPE_KEYS == <<"type", "channel", "method">>

IsStr(v) == v.t = "str"

\* the fraction of a float literal as str() prints it: no trailing zeros,
\* one digit at least
trim_zeros(s) ==
    LET m == Max({k \in 1..Len(s) : Ch(s, k) # "0"})
    IN  IF Ch(s, m) = "." THEN SubSeq(s, 1, m + 1) ELSE SubSeq(s, 1, m)

all_zero(s, i) == \A k \in i..Len(s) : Ch(s, k) \in {"0", ".", "-"}

\* bool(val)
truthy(v) ==
    CASE v.t = "str" -> v.v # ""
      [] v.t = "num" -> ~all_zero(v.v, 1)
      [] v.t = "lit" -> v.v = "true"
      [] OTHER -> v.v # <<>>

RECURSIVE py_repr(_)
RECURSIVE py_repr_items(_, _)
RECURSIVE py_repr_pairs(_, _)

\* repr(val) for the values json.loads builds (a str in single quotes)
py_repr(v) ==
    CASE v.t = "str" -> "'" \o v.v \o "'"
      [] v.t = "num" -> IF find_from(v.v, ".", 1) # 0 THEN trim_zeros(v.v) ELSE v.v
      [] v.t = "lit" -> (CASE v.v = "true" -> "True"
                           [] v.v = "false" -> "False"
                           [] OTHER -> "None")
      [] v.t = "arr" -> "[" \o py_repr_items(v.v, 1) \o "]"
      [] OTHER -> "{" \o py_repr_pairs(v.v, 1) \o "}"

py_repr_items(items, i) ==
    IF i > Len(items) THEN ""
    ELSE py_repr(items[i]) \o (IF i < Len(items) THEN ", " ELSE "")
         \o py_repr_items(items, i + 1)

py_repr_pairs(pairs, i) ==
    IF i > Len(pairs) THEN ""
    ELSE "'" \o pairs[i][1] \o "': " \o py_repr(pairs[i][2])
         \o (IF i < Len(pairs) THEN ", " ELSE "") \o py_repr_pairs(pairs, i + 1)

\* str(val)
py_str(v) == IF v.t = "str" THEN v.v ELSE py_repr(v)

\* {k.lower(): v for k, v in data.items() if isinstance(k, str)}
RECURSIVE lowered_from(_, _, _)
RECURSIVE lowered_from_as_spelled(_, _, _)

\* the mapping with its keys as they are spelled
lowered_from_as_spelled(pairs, i, acc) ==
    IF i > Len(pairs) THEN acc
    ELSE lowered_from_as_spelled(pairs, i + 1, dict_set(acc, pairs[i][1], pairs[i][2]))

lowered_from(pairs, i, acc) ==
    IF i > Len(pairs) THEN acc
    ELSE lowered_from(pairs, i + 1, dict_set(acc, lower(pairs[i][1]), pairs[i][2]))

\* index of the first key of keys that the loop breaks on, 0 if none;
\* need_str: the loop also requires isinstance(value, str)
RECURSIVE first_key(_, _, _, _)
first_key(lowered, keys, i, need_str) ==
    IF i > Len(keys) THEN 0
    ELSE IF dict_has(lowered, keys[i])
            /\ (need_str => IsStr(dict_get(lowered, keys[i])))
    THEN i
    ELSE first_key(lowered, keys, i + 1, need_str)

_normalize_keys(pairs) ==
    LET lowered == lowered_from(pairs, 1, <<>>)
        ti == first_key(lowered, _TO_KEYS, 1, TRUE)
        mi == first_key(lowered, _MESSAGE_KEYS, 1, FALSE)
        yi == first_key(lowered, _TYPE_KEYS, 1, TRUE)
        to == IF ti = 0 THEN "" ELSE strip(dict_get(lowered, _TO_KEYS[ti]).v)
        val == dict_get(lowered, _MESSAGE_KEYS[mi])
        message == IF mi = 0 THEN ""
                   ELSE IF truthy(val) THEN strip(py_str(val)) ELSE ""
    IN  IF to = "" THEN None
        ELSE IF yi = 0 THEN None
        ELSE Some([to |-> to, message |-> message,
                   type |-> lower(strip(dict_get(lowered, _TYPE_KEYS[yi]).v))])

all_in(s, i, j, chars) == \A k \in i..j : Ch(s, k) \in chars

\* str.rfind(c): index of the last occurrence up to j, 0 if none
rfind(s, c, j) ==
    LET hits == {k \in 1..j : Ch(s, k) = c}
    IN  IF hits = {} THEN 0 ELSE Max(hits)

EmailLocalChars == Letters \cup Digits \cup {".", "_", "%", "+", "-"}
EmailDomainChars == Letters \cup Digits \cup {".", "-"}
PhoneChars == Digits \cup {"-", "+", " ", "\t", "\n", "\r", "\f"}

\* _EMAIL_REGEX.match: ^[A-Za-z0-9._%+-]+@[A-Za-z0-9.-]+\.[A-Za-z]{2,}$
\* (the local part ends at the first @, the top-level part starts after the
\* last dot)
_is_valid_email(value) ==
    LET at == find_from(value, "@", 1)
        dot == rfind(value, ".", Len(value))
    IN  /\ at > 1
        /\ all_in(value, 1, at - 1, EmailLocalChars)
        /\ dot > at + 1
        /\ all_in(value, at + 1, dot - 1, EmailDomainChars)
        /\ Len(value) - dot >= 2
        /\ all_in(value, dot + 1, Len(value), Letters)

\* _PHONE_REGEX.match: ^[0-9\-+\s]{6,20}$
_is_valid_phone(value) ==
    /\ Len(value) >= 6
    /\ Len(value) <= 20
    /\ all_in(value, 1, Len(value), PhoneChars)

_validate_destination(to, type_) ==
    IF type_ = "email" THEN _is_valid_email(to)
    ELSE IF type_ = "sms" THEN _is_valid_phone(to)
    ELSE FALSE

\* a validator that does not look at the message
validate_extraction_any_message(pairs) ==
    LET normalized == _normalize_keys(pairs)
    IN  IF ~normalized.ok THEN None
        ELSE IF normalized.v.type \notin {"email", "sms"} THEN None
        ELSE IF ~_validate_destination(normalized.v.to, normalized.v.type) THEN None
        ELSE Some(normalized.v)

\* the canonical notification [to, message, type], or None
validate_extraction(pairs) ==
    LET normalized == _normalize_keys(pairs)
    IN  IF ~normalized.ok THEN None
        ELSE IF normalized.v.type \notin {"email", "sms"} THEN None
        ELSE IF ~_validate_destination(normalized.v.to, normalized.v.type) THEN None
        ELSE IF normalized.v.message = "" \/ Len(strip(normalized.v.message)) = 0 THEN None
        ELSE Some(normalized.v)

-----------------------------------------------------------------------------
(* infra/http_client.py.  A provider response is a status code with the     *)
(* content of the first choice, or no response at all (transport failure). *)

RawOutputs ==
    { "{\"to\":\"jane@co.io\",\"message\":\"hi\",\"type\":\"email\"}",
      "{\"to\":\"\",\"message\":\"\",\"type\":\"\"}",
      "Refused: flagged.",
      "" }

StatusCodes == {200, 401, 429, 500, 501}

ExtractResponses ==
    [kind : {"status"}, code : {200}, content : RawOutputs]
    \cup [kind : {"status"}, code : StatusCodes \ {200}, content : {""}]
    \cup [kind : {"transport"}, code : {0}, content : {""}]

NotifyResponses ==
    [kind : {"status"}, code : StatusCodes, content : {""}]
    \cup [kind : {"transport"}, code : {0}, content : {""}]

NoException == [kind |-> "none", code |-> 0]

\* one attempt: client.post followed by response.raise_for_status()
attempt_exception(resp) ==
    IF resp.kind = "transport" THEN [kind |-> "TransportError", code |-> 0]
    ELSE IF resp.code >= 400 THEN [kind |-> "HTTPStatusError", code |-> resp.code]
    ELSE NoException

_is_transient_error(exc) ==
    IF exc.kind = "HTTPStatusError" THEN exc.code \in {429, 500, 502, 503, 504}
    ELSE IF exc.kind = "TransportError" THEN TRUE
    ELSE FALSE

StopAfterAttempt == 3

\* a decorator that retries whatever the attempt raised
retry_outcome_any(n, exc) ==
    IF n >= StopAfterAttempt THEN [kind |-> "RetryError", code |-> exc.code]
    ELSE NoException

\* the retry decorator after attempt number n raised exc: the exception that
\* leaves the call, or NoException when another attempt is made.
\* tenacity re-raises an exception its predicate rejects and wraps the last
\* one in RetryError when the attempts are used up (reraise is not set).
retry_outcome(n, exc) ==
    IF ~_is_transient_error(exc) THEN exc
    ELSE IF n >= StopAfterAttempt THEN [kind |-> "RetryError", code |-> exc.code]
    ELSE NoException

\* except httpx.HTTPError
is_HTTPError(exc) == exc.kind \in {"HTTPStatusError", "TransportError"}

-----------------------------------------------------------------------------
(* services/orchestration.py and api/routes.py *)

SemaphoreSlots == 20

NoCap == 0 - 1
NoPayload == [to |-> "", message |-> "", type |-> ""]

\* what steps 2 and 3 of process_request make of an extraction text
\* step 3, if not validated
validated_stage(validated) ==
    IF ~validated.ok THEN [stage |-> "validate", payload |-> NoPayload]
    ELSE [stage |-> "", payload |-> validated.v]

\* step 2, if not parsed (an empty mapping is falsy too), then step 3
parsed_stage(parsed) ==
    IF ~parsed.ok \/ parsed.v = <<>> THEN [stage |-> "sanitize", payload |-> NoPayload]
    ELSE validated_stage(validate_extraction(parsed.v))

Extraction == [raw \in RawOutputs |-> parsed_stage(sanitize_llm_output(raw))]

Tasks == DOMAIN proc
Callers == DOMAIN caller

\* a coroutine that was not started
IdleTask ==
    [pc |-> "idle", id |-> 0, via |-> "", claimed |-> FALSE, attempt |-> 0,
     extracts |-> 0, notifies |-> 0, stage |-> "", payload |-> NoPayload]

IdleCaller ==
    [pc |-> "idle", op |-> "", id |-> 0, target |-> "", seen |-> "", ret |-> "None"]

status_of(d, req_id) == IF req_id \in DOMAIN d THEN d[req_id].status ELSE "absent"

\* the free coroutine slot a new coroutine takes
NextTask == Min({t \in Tasks : proc[t].pc = "idle"})
HasIdleTask == \E t \in Tasks : proc[t].pc = "idle"

Spend == IF budget = NoCap THEN NoCap ELSE budget - 1

\* The ledger's operations run under async with self._lock: each starts
\* when the lock is free and has released it when it ends, and no body of a
\* locked section awaits.
\* POST /v1/requests
Create(user_input) ==
    /\ IdSpace \ DOMAIN data # {}
    /\ ~lock
    /\ data' = repo_create(data, uuid4(data), user_input)
    /\ lock' = FALSE
    /\ UNCHANGED <<sem, proc, caller, http, budget, client, call>>

\* POST /v1/requests/{req_id}/process, up to its await of update_status
Trigger(req_id) ==
    LET entry == repo_get(data, req_id)
    IN  IF ~entry.ok
        THEN /\ http' = 404
             /\ UNCHANGED <<data, sem, proc, caller, budget, client, call, lock>>
        ELSE IF entry.v.status \in {PROCESSING, SENT, FAILED}
        THEN /\ http' = 200
             /\ UNCHANGED <<data, sem, proc, caller, budget, client, call, lock>>
        ELSE /\ HasIdleTask
             /\ proc' = [proc EXCEPT ![NextTask] =
                            [IdleTask EXCEPT !.pc = "update", !.id = req_id, !.via = "trigger"]]
             /\ UNCHANGED <<data, sem, caller, http, budget, client, call, lock>>

\* a handler that schedules the run without marking the record
TriggerUpdate_unmarked(t) ==
    /\ proc[t].pc = "update"
    /\ data' = data
    /\ proc' = [proc EXCEPT ![t].pc = "acquire"]
    /\ http' = 202
    /\ UNCHANGED <<sem, caller, budget, client, call, lock>>

\* the rest of the trigger handler: update_status, add_task, 202
TriggerUpdate(t) ==
    /\ proc[t].pc = "update"
    /\ ~lock
    /\ data' = update_status(data, proc[t].id, PROCESSING)
    /\ proc' = [proc EXCEPT ![t].pc = "acquire"]
    /\ http' = 202
    /\ lock' = FALSE
    /\ UNCHANGED <<sem, caller, budget, client, call>>

\* process_request(repo, req_id) called by any other caller
Invoke(req_id) ==
    /\ HasIdleTask
    /\ proc' = [proc EXCEPT ![NextTask] =
                   [IdleTask EXCEPT !.pc = "acquire", !.id = req_id, !.via = "direct"]]
    /\ UNCHANGED <<data, sem, caller, http, budget, client, call, lock>>

\* a run that returns on an absent id with its slot still taken
Acquire_slot_kept(t) ==
    /\ proc[t].pc = "acquire"
    /\ sem > 0
    /\ IF ~repo_get(data, proc[t].id).ok
       THEN /\ proc' = [proc EXCEPT ![t].pc = "done", ![t].stage = "absent"]
            /\ sem' = sem - 1
       ELSE /\ proc' = [proc EXCEPT ![t].pc = "claim"]
            /\ sem' = sem - 1
    /\ UNCHANGED <<data, caller, http, budget, client, call, lock>>

\* an acquire that does not wait for a free slot
Acquire_unbounded(t) ==
    /\ proc[t].pc = "acquire"
    /\ IF ~repo_get(data, proc[t].id).ok
       THEN /\ proc' = [proc EXCEPT ![t].pc = "done", ![t].stage = "absent"]
            /\ sem' = sem
       ELSE /\ proc' = [proc EXCEPT ![t].pc = "claim"]
            /\ sem' = sem - 1
    /\ UNCHANGED <<data, caller, http, budget, client, call, lock>>

\* async with _pipeline_semaphore; entry = repo.get(req_id)
Acquire(t) ==
    /\ proc[t].pc = "acquire"
    /\ sem > 0
    /\ IF ~repo_get(data, proc[t].id).ok
       THEN /\ proc' = [proc EXCEPT ![t].pc = "done", ![t].stage = "absent"]
            /\ sem' = sem
       ELSE /\ proc' = [proc EXCEPT ![t].pc = "claim"]
            /\ sem' = sem - 1
    /\ UNCHANGED <<data, caller, http, budget, client, call, lock>>

\* a run that makes its extract call inside the ledger's locked section
Claim_lock_held(t) ==
    /\ proc[t].pc = "claim"
    /\ ~lock
    /\ LET r == transition(data, proc[t].id, PROCESSING)
       IN  IF ~r.ret
           THEN /\ proc' = [proc EXCEPT ![t].pc = "done", ![t].stage = "not_claimed"]
                /\ sem' = sem + 1
                /\ data' = r.data
                /\ lock' = FALSE
           ELSE /\ proc' = [proc EXCEPT ![t].pc = "extract", ![t].claimed = TRUE,
                                         ![t].extracts = @ + 1, ![t].attempt = 1]
                /\ sem' = sem
                /\ data' = r.data
                /\ lock' = TRUE
    /\ UNCHANGED <<caller, http, budget, client, call>>

\* a run that goes on whatever the transition returned
Claim_unguarded(t) ==
    /\ proc[t].pc = "claim"
    /\ ~lock
    /\ LET r == transition(data, proc[t].id, PROCESSING)
       IN  /\ proc' = [proc EXCEPT ![t].pc = "extract", ![t].claimed = TRUE,
                                    ![t].extracts = @ + 1, ![t].attempt = 1]
           /\ sem' = sem
           /\ data' = r.data
    /\ lock' = FALSE
    /\ UNCHANGED <<caller, http, budget, client, call>>

\* transitioned = await repo.transition(req_id, PROCESSING), then the call
\* of call_ai_extract up to its first request
Claim(t) ==
    /\ proc[t].pc = "claim"
    /\ ~lock
    /\ LET r == transition(data, proc[t].id, PROCESSING)
       IN  IF ~r.ret
           THEN /\ proc' = [proc EXCEPT ![t].pc = "done", ![t].stage = "not_claimed"]
                /\ sem' = sem + 1
                /\ data' = r.data
           ELSE /\ proc' = [proc EXCEPT ![t].pc = "extract", ![t].claimed = TRUE,
                                         ![t].extracts = @ + 1, ![t].attempt = 1]
                /\ sem' = sem
                /\ data' = r.data
    /\ lock' = FALSE
    /\ UNCHANGED <<caller, http, budget, client, call>>

\* a run that does not stop after a rejected extraction
after_extract_no_return(p, got) ==
    [p EXCEPT !.pc = "notify", !.payload = got.payload, !.stage = got.stage,
              !.notifies = @ + 1, !.attempt = 1]

\* the run from the text extract returned: a rejected text ends it, an
\* accepted one takes it to the first request of send_notification
after_extract(p, got) ==
    IF got.stage # ""
    THEN [p EXCEPT !.pc = "fail", !.stage = got.stage]
    ELSE [p EXCEPT !.pc = "notify", !.payload = got.payload,
                   !.notifies = @ + 1, !.attempt = 1]

\* the provider answers the pending request of call_ai_extract; on success
\* the run goes on through the sanitizer and the validator to the first
\* request of send_notification
ExtractResponse(t, resp) ==
    /\ proc[t].pc = "extract"
    /\ budget # 0
    /\ budget' = Spend
    /\ LET exc == attempt_exception(resp)
           out == retry_outcome(proc[t].attempt, exc)
       IN  IF exc = NoException
           THEN /\ proc' = [proc EXCEPT ![t] = after_extract(@, Extraction[resp.content])]
                /\ sem' = sem
           ELSE IF out = NoException
           THEN /\ proc' = [proc EXCEPT ![t].attempt = @ + 1]
                /\ sem' = sem
           ELSE IF is_HTTPError(out)
           THEN /\ proc' = [proc EXCEPT ![t].pc = "fail", ![t].stage = "extract"]
                /\ sem' = sem
           ELSE /\ proc' = [proc EXCEPT ![t].pc = "raised", ![t].stage = "extract"]
                /\ sem' = sem + 1
    /\ UNCHANGED <<data, caller, http, client, call, lock>>

\* the provider answers the pending request of send_notification
NotifyResponse(t, resp) ==
    /\ proc[t].pc = "notify"
    /\ budget # 0
    /\ budget' = Spend
    /\ LET exc == attempt_exception(resp)
           out == retry_outcome(proc[t].attempt, exc)
       IN  IF exc = NoException
           THEN /\ proc' = [proc EXCEPT ![t].pc = "sent"]
                /\ sem' = sem
           ELSE IF out = NoException
           THEN /\ proc' = [proc EXCEPT ![t].attempt = @ + 1]
                /\ sem' = sem
           ELSE IF is_HTTPError(out)
           THEN /\ proc' = [proc EXCEPT ![t].pc = "fail", ![t].stage = "notify"]
                /\ sem' = sem
           ELSE /\ proc' = [proc EXCEPT ![t].pc = "raised", ![t].stage = "notify"]
                /\ sem' = sem + 1
    /\ UNCHANGED <<data, caller, http, client, call, lock>>

\* await repo.transition(req_id, FAILED); return
\* a run that stops after a failure without recording it
Fail_unrecorded(t) ==
    /\ proc[t].pc = "fail"
    /\ proc' = [proc EXCEPT ![t].pc = "done"]
    /\ sem' = sem + 1
    /\ UNCHANGED <<data, caller, http, budget, client, call, lock>>

Fail(t) ==
    /\ proc[t].pc = "fail"
    /\ ~lock
    /\ data' = transition(data, proc[t].id, FAILED).data
    /\ proc' = [proc EXCEPT ![t].pc = "done"]
    /\ sem' = sem + 1
    /\ lock' = FALSE
    /\ UNCHANGED <<caller, http, budget, client, call>>

\* await repo.transition(req_id, SENT)
Sent(t) ==
    /\ proc[t].pc = "sent"
    /\ ~lock
    /\ data' = transition(data, proc[t].id, SENT).data
    /\ proc' = [proc EXCEPT ![t].pc = "done", ![t].stage = "sent"]
    /\ sem' = sem + 1
    /\ lock' = FALSE
    /\ UNCHANGED <<caller, http, budget, client, call>>

\* a coroutine is created that will call transition or update_status
Call(c, op, req_id, target) ==
    /\ caller[c].pc # "called"
    /\ caller' = [caller EXCEPT ![c] =
                     [pc |-> "called", op |-> op, id |-> req_id, target |-> target,
                      seen |-> status_of(data, req_id), ret |-> "None"]]
    /\ UNCHANGED <<data, sem, proc, http, budget, client, call, lock>>

\* the coroutine runs: the whole of transition / update_status
Exec(c) ==
    /\ caller[c].pc = "called"
    /\ ~lock
    /\ LET r == transition(data, caller[c].id, caller[c].target)
       IN  IF caller[c].op = "transition"
           THEN /\ data' = r.data
                /\ caller' = [caller EXCEPT ![c].pc = "returned",
                                            ![c].ret = IF r.ret THEN "True" ELSE "False"]
           ELSE /\ data' = update_status(data, caller[c].id, caller[c].target)
                /\ caller' = [caller EXCEPT ![c].pc = "returned"]
    /\ lock' = FALSE
    /\ UNCHANGED <<sem, proc, http, budget, client, call>>

-----------------------------------------------------------------------------
(* Specifications *)

EmptyLedger == [i \in {} |-> [user_input |-> "", status |-> QUEUED]]

\* the state after start-up, with the coroutines a behaviour may start
InitWith(tasks, callers) ==
    /\ data = EmptyLedger
    /\ sem = SemaphoreSlots
    /\ proc = [t \in tasks |-> IdleTask]
    /\ caller = [c \in callers |-> IdleCaller]
    /\ http = 0
    /\ budget = NoCap
    /\ client = IdleClient
    /\ call = IdleCall
    /\ lock = FALSE

Init == InitWith(1..NumTasks, {})

PipelineStep ==
    \E t \in Tasks :
        \/ Acquire(t)
        \/ Claim(t)
        \/ \E resp \in ExtractResponses : ExtractResponse(t, resp)
        \/ \E resp \in NotifyResponses : NotifyResponse(t, resp)
        \/ Fail(t)
        \/ Sent(t)

\* the service: the routes and the orchestrator
Next ==
    \/ \E user_input \in Inputs : Create(user_input)
    \/ \E req_id \in IdSpace : Trigger(req_id)
    \/ \E t \in Tasks : TriggerUpdate(t)
    \/ \E req_id \in IdSpace : Invoke(req_id)
    \/ PipelineStep

Spec == Init /\ [][Next]_vars

LedgerCall ==
    \E c \in Callers :
        \/ \E op \in {"transition", "update_status"}, req_id \in IdSpace,
              target \in RequestStatus : Call(c, op, req_id, target)
        \/ Exec(c)

\* the ledger alone under arbitrary callers
NextLedger ==
    \/ \E user_input \in Inputs : Create(user_input)
    \/ LedgerCall

\* two callers, as many as a race for one record takes
InitLedger == InitWith({}, {1, 2})

SpecLedger == InitLedger /\ [][NextLedger]_vars

\* the service together with arbitrary callers of the ledger
NextAll == Next \/ LedgerCall

\* one coroutine of the service against one caller of the ledger
InitAll == InitWith({1}, {1})

SpecAll == InitAll /\ [][NextAll]_vars

\* the service with requests of different texts and one coroutine
RecordInputs == {"email jane@co.io saying hi", "text +34 600 100 200: late"}

NextRecords ==
    \/ \E user_input \in RecordInputs : Create(user_input)
    \/ \E req_id \in IdSpace : Trigger(req_id)
    \/ \E t \in Tasks : TriggerUpdate(t)
    \/ \E req_id \in IdSpace : Invoke(req_id)
    \/ PipelineStep

SpecRecords == InitWith({1}, {}) /\ [][NextRecords]_vars

\* SemaphoreSlots + ExtraTasks invocations on distinct queued requests.  All
\* but ExtraTasks + 1 of them hold a slot and wait for the provider, the odd
\* ones in their extract call, the even ones in their notify call.
LimiterTasks == 1..(SemaphoreSlots + ExtraTasks)

AcceptedOutput == "{\"to\":\"jane@co.io\",\"message\":\"hi\",\"type\":\"email\"}"

InFlight(t) ==
    IF t % 2 = 1
    THEN [IdleTask EXCEPT !.pc = "extract", !.id = t, !.via = "direct",
                          !.claimed = TRUE, !.extracts = 1, !.attempt = 1]
    ELSE [IdleTask EXCEPT !.pc = "notify", !.id = t, !.via = "direct",
                          !.claimed = TRUE, !.extracts = 1, !.notifies = 1,
                          !.attempt = 1, !.payload = Extraction[AcceptedOutput].payload]

InitLimiter ==
    /\ data = [i \in LimiterTasks |->
                  [user_input |-> "email jane@co.io saying hi",
                   status |-> IF i < SemaphoreSlots THEN PROCESSING ELSE QUEUED]]
    /\ sem = 1
    /\ proc = [t \in LimiterTasks |->
                  IF t < SemaphoreSlots THEN InFlight(t)
                  ELSE [IdleTask EXCEPT !.pc = "acquire", !.id = t, !.via = "direct"]]
    /\ caller = [c \in {} |-> IdleCaller]
    /\ http = 0
    /\ budget = MaxLimiterResponses
    /\ client = IdleClient
    /\ call = IdleCall
    /\ lock = FALSE

SpecLimiter == InitLimiter /\ [][PipelineStep]_vars

\* All SemaphoreSlots slots are held and further invocations wait for one:
\* the first holder is at the last attempt of its extract call, the others
\* are in flight as above.  Three invocations wait: on a queued record, on
\* an id the ledger does not hold and on a finished record.
SaturatedTasks == 1..(SemaphoreSlots + 3)

InitSaturated ==
    /\ data = [i \in {t \in SaturatedTasks : t % 3 # 1 \/ t <= SemaphoreSlots} |->
                  [user_input |-> "email jane@co.io saying hi",
                   status |-> IF i <= SemaphoreSlots THEN PROCESSING
                              ELSE IF i % 3 = 0 THEN QUEUED ELSE SENT]]
    /\ sem = 0
    /\ proc = [t \in SaturatedTasks |->
                  IF t = 1 THEN [InFlight(t) EXCEPT !.attempt = StopAfterAttempt]
                  ELSE IF t <= SemaphoreSlots THEN InFlight(t)
                  ELSE [IdleTask EXCEPT !.pc = "acquire", !.id = t, !.via = "direct"]]
    /\ caller = [c \in {} |-> IdleCaller]
    /\ http = 0
    /\ budget = MaxLimiterResponses
    /\ client = IdleClient
    /\ call = IdleCall
    /\ lock = FALSE

\* the saturated limiter with the least the event loop and the provider
\* give: as long as a coroutine can run or a pending request can be
\* answered, one of them eventually is
SpecSaturated ==
    /\ InitSaturated
    /\ [][PipelineStep]_vars
    /\ WF_vars(PipelineStep)

\* Spec with the scheduling the event loop and the provider give: a started
\* coroutine step is eventually run, a pending request is eventually answered
Fairness ==
    \A t \in 1..NumTasks :
        /\ WF_vars(TriggerUpdate(t))
        /\ WF_vars(Acquire(t))
        /\ WF_vars(Claim(t))
        /\ WF_vars(\E resp \in ExtractResponses : ExtractResponse(t, resp))
        /\ WF_vars(\E resp \in NotifyResponses : NotifyResponse(t, resp))
        /\ WF_vars(Fail(t))
        /\ WF_vars(Sent(t))

FairSpec == Spec /\ Fairness

-----------------------------------------------------------------------------
(* One call of call_ai_extract or send_notification, taken alone: the      *)
(* attempts the retry decorator makes and what leaves the call.  log holds *)
(* what each attempt raised (NoException for an attempt that returned).    *)

ClientOps == {"call_ai_extract", "send_notification"}

ClientResponses(op) ==
    IF op = "call_ai_extract" THEN ExtractResponses ELSE NotifyResponses

ClientCall(op) ==
    /\ client.outcome = ""
    /\ client' = [IdleClient EXCEPT !.op = op, !.outcome = "pending"]
    /\ UNCHANGED <<data, sem, proc, caller, http, budget, call, lock>>

\* the provider answers the pending attempt
ClientAttempt(resp) ==
    /\ client.outcome = "pending"
    /\ resp \in ClientResponses(client.op)
    /\ LET exc == attempt_exception(resp)
           log == Append(client.log, exc)
           out == retry_outcome(Len(log), exc)
       IN  client' =
             IF exc = NoException
             THEN [client EXCEPT !.log = log, !.outcome = "returned", !.ret = resp.content]
             ELSE IF out = NoException
             THEN [client EXCEPT !.log = log]
             ELSE [client EXCEPT !.log = log, !.outcome = "raised", !.exc = out]
    /\ UNCHANGED <<data, sem, proc, caller, http, budget, call, lock>>

NextClient ==
    \/ \E op \in ClientOps : ClientCall(op)
    \/ \E resp \in ExtractResponses \cup NotifyResponses : ClientAttempt(resp)

SpecClient == InitWith({}, {}) /\ [][NextClient]_vars

-----------------------------------------------------------------------------
(* One call of validate_extraction, taken alone, on the mappings the       *)
(* sanitizer can hand over: objects of a JSON text.                        *)

Str(x) == [t |-> "str", v |-> x]
Num(x) == [t |-> "num", v |-> x]

DestinationKeys == {"to", "TO", "Recipient", "destination"}
MessageKeys == {"message", "Body", "text"}
ChannelKeys == {"type", "Channel", "METHOD"}

DestinationValues ==
    { Str("jane@co.io"), Str(" a@b.com "), Str("jane@co"), Str(""), Str("  "),
      Str("12"), Str("+34 600-100"), Str("600 100 200"), Str("12+34-56"),
      Str("++3460010"), Num("42") }
MessageValues == { Str("hi"), Str(" hello "), Str(""), Str("  "), Num("7"), Num("0") }
ChannelValues == { Str("email"), Str("sms"), Str(" SMS "), Str("fax"), Str(""), Num("1") }

\* one alias for each field
SingleInputs ==
    { << <<kt, vt>>, <<km, vm>>, <<ky, vy>> >> :
        kt \in DestinationKeys, vt \in DestinationValues,
        km \in MessageKeys, vm \in MessageValues,
        ky \in ChannelKeys, vy \in ChannelValues }

\* no message alias
NoMessageInputs ==
    { << <<ky, vy>>, <<"to", vt>> >> :
        ky \in ChannelKeys, vy \in ChannelValues, vt \in DestinationValues }

\* two aliases of the destination and of the channel, the lower-priority
\* ones holding valid values
ShadowInputs ==
    { << <<"recipient", Str("a@b.com")>>, <<"to", vt>>, <<"message", vm>>,
         <<"body", Str("hi")>>, <<"type", vy>>, <<"channel", Str("email")>> >> :
        vt \in DestinationValues, vm \in MessageValues, vy \in ChannelValues }

ValidateInputs == SingleInputs \cup NoMessageInputs \cup ShadowInputs

ValidateCall(pairs) ==
    /\ call.fn = ""
    /\ call' = [fn |-> "validate_extraction", pc |-> "called", arg |-> pairs, out |-> None]
    /\ UNCHANGED <<data, sem, proc, caller, http, budget, client, lock>>

ValidateReturn ==
    /\ call.fn = "validate_extraction"
    /\ call.pc = "called"
    /\ call' = [call EXCEPT !.pc = "returned", !.out = validate_extraction(call.arg)]
    /\ UNCHANGED <<data, sem, proc, caller, http, budget, client, lock>>

NextValidate ==
    \/ \E pairs \in ValidateInputs : ValidateCall(pairs)
    \/ ValidateReturn

SpecValidate == InitWith({}, {}) /\ [][NextValidate]_vars

-----------------------------------------------------------------------------
(* One call of sanitize_llm_output, taken alone, on texts of the kinds the *)
(* provider produces: a JSON object in a markdown fence inside other text, *)
(* and text without a fenced block.                                        *)

\* well-formed JSON objects
JsonObjects ==
    { "{\"to\":\"a@b.co\",\"message\":\"hi\",\"type\":\"email\"}",
      "{\"to\": \"+34 600\", \"n\": {\"k\": [1, 2]}}",
      "{\"m\":\"x}y{\"}",
      "{\"m\":\"a" \o Backtick \o "b\"}",
      "{\"m\":\"a" \o Fence \o "b\"}",
      "{}" }

Prefixes == {"", "Here you go:\n", "x {y} "}
Suffixes == {"", "\nDone.", " }"}

\* J in a fence, tagged json or not, with text around it
FencedInputs ==
    { [text |-> pre \o Fence \o tag \o ws \o J \o ws \o Fence \o suf, inner |-> J] :
        pre \in Prefixes, tag \in {"", "json"}, ws \in {"", "\n"},
        J \in JsonObjects, suf \in Suffixes }

PlainBodies ==
    { "{\"to\": \"x\"",
      "{\"to\": \"x\"}",
      "{\"a\":\"}\"}",
      "{'a':'{'}",
      "{\"a\":\"\\\"}\"}",
      "{\"a\":\"b\\\\\"}",
      "{\"a\":{\"b\":1}}",
      "{\"a\":\"it's\"}}",
      "{a: 'x'}",
      "no json here",
      "}{",
      "{}",
      "" }

PlainInputs ==
    { [text |-> pre \o body \o suf, inner |-> ""] :
        pre \in {"", "Sure: ", "} ", Fence \o " "},
        body \in PlainBodies,
        suf \in {"", " {\"b\":2}", " ok"} }

\* objects whose keys and values are single-quoted strings, holding no
\* quote and no backslash
SingleQuotedInputs ==
    { [text |-> body, inner |-> ""] : body \in
        { "{'to': 'a@b.com', 'message': 'hi', 'type': 'email'}",
          "{'a':'b'}",
          "{ 'a' : 'x}y{' , 'k: v' : '' }",
          "{'a': 'x', 'a': 'y'}",
          "{'n': '1', 'b': 'true, null'}",
          "{'m': 'a" \o Backtick \o "b'}",
          "{'m': '" \o Fence \o "x" \o Fence \o "'}",
          "{'a': 'see " \o Fence \o "json {} " \o Fence \o "'}" } }

SanitizeCall(input) ==
    /\ call.fn = ""
    /\ call' = [fn |-> "sanitize_llm_output", pc |-> "called", arg |-> input.text,
                inner |-> input.inner, candidate |-> None, out |-> None]
    /\ UNCHANGED <<data, sem, proc, caller, http, budget, client, lock>>

SanitizeReturn ==
    /\ call.fn = "sanitize_llm_output"
    /\ call.pc = "called"
    /\ call' = [call EXCEPT !.pc = "returned",
                            !.candidate = _extract_json_block(call.arg),
                            !.out = sanitize_llm_output(call.arg)]
    /\ UNCHANGED <<data, sem, proc, caller, http, budget, client, lock>>

NextSanitize ==
    \/ \E input \in FencedInputs \cup PlainInputs \cup SingleQuotedInputs :
          SanitizeCall(input)
    \/ SanitizeReturn

SpecSanitize == InitWith({}, {}) /\ [][NextSanitize]_vars

-----------------------------------------------------------------------------
(* Properties *)

\* the graph of section 3 of the specification
Edges == {<<QUEUED, PROCESSING>>, <<PROCESSING, SENT>>, <<PROCESSING, FAILED>>}
Terminal(req_id) == status_of(data, req_id) \in {SENT, FAILED}
Finished(t) == proc[t].pc \in {"done", "raised"}

\* C1: under any interleaving of create, transition, update_status, the
\* trigger route and process, every change of a record's status is an edge
\* of the graph: never QUEUED->SENT or QUEUED->FAILED, never out of SENT or
\* FAILED.
C1_StatusFollowsGraph ==
    [][\A i \in DOMAIN data :
          /\ i \in DOMAIN data'
          /\ data'[i].status # data[i].status
                => <<data[i].status, data'[i].status>> \in Edges]_vars

\* a caller asked to move a SENT record to FAILED and was refused, the
\* record is still SENT
C1_Witness ==
    \E c \in Callers :
        /\ caller[c].pc = "returned"
        /\ caller[c].seen = SENT
        /\ caller[c].target = FAILED
        /\ status_of(data, caller[c].id) = SENT

\* the call of caller c is one the graph does not allow, or names no record
Rejected(c) ==
    \/ caller[c].id \notin DOMAIN data
    \/ <<data[caller[c].id].status, caller[c].target>> \notin Edges

\* C2: transition(id, target) with a target that is no allowed successor of
\* the current status, or with an unknown id, returns false and leaves every
\* record unchanged; update_status with the same arguments returns nothing
\* and changes nothing.
C2_RejectedIsNoOp ==
    [][\A c \in Callers :
          (caller[c].pc = "called" /\ caller'[c].pc = "returned" /\ Rejected(c))
             => /\ data' = data
                /\ caller[c].op = "transition" => caller'[c].ret = "False"
                /\ caller[c].op = "update_status" => caller'[c].ret = "None"]_vars

\* transition was refused for an id the ledger does not hold while it holds
\* another one, and update_status was refused for a record that is SENT
C2_Witness ==
    /\ \E c \in Callers :
          /\ caller[c].pc = "returned"
          /\ caller[c].op = "transition"
          /\ caller[c].ret = "False"
          /\ caller[c].id \notin DOMAIN data
          /\ DOMAIN data # {}
    /\ \E c \in Callers :
          /\ caller[c].pc = "returned"
          /\ caller[c].op = "update_status"
          /\ caller[c].seen = SENT
          /\ caller[c].target = PROCESSING
          /\ status_of(data, caller[c].id) = SENT

\* callers c1 and c2 both called transition on one record while it was
\* PROCESSING, c1 with SENT and c2 with FAILED, and both calls have returned
Raced(c1, c2) ==
    /\ caller[c1].pc = "returned" /\ caller[c2].pc = "returned"
    /\ caller[c1].op = "transition" /\ caller[c2].op = "transition"
    /\ caller[c1].id = caller[c2].id
    /\ caller[c1].seen = PROCESSING /\ caller[c2].seen = PROCESSING
    /\ caller[c1].target = SENT /\ caller[c2].target = FAILED

\* C3: of two transition calls made on a PROCESSING record, one to SENT and
\* one to FAILED, exactly one returns true, and the record ends in the
\* target of that call.
C3_SingleWinner ==
    \A c1, c2 \in Callers :
        Raced(c1, c2) =>
            \/ /\ caller[c1].ret = "True" /\ caller[c2].ret = "False"
               /\ status_of(data, caller[c1].id) = SENT
            \/ /\ caller[c1].ret = "False" /\ caller[c2].ret = "True"
               /\ status_of(data, caller[c1].id) = FAILED

\* the race was run and the call to FAILED won it
C3_Witness ==
    \E c1, c2 \in Callers : Raced(c1, c2) /\ caller[c2].ret = "True"

RunsOn(req_id) == {t \in Tasks : proc[t].pc # "idle" /\ proc[t].id = req_id}

RECURSIVE SumOver(_, _)
SumOver(S, f) ==
    IF S = {} THEN 0
    ELSE LET x == CHOOSE y \in S : TRUE
         IN  f[x] + SumOver(S \ {x}, f)

\* C4: of any number of process invocations for one id at most one gets the
\* QUEUED->PROCESSING transition applied; only that one calls extract and
\* notify, so notify is called at most once for the id; every other
\* invocation makes no call and leaves the ledger as it is.
C4_State ==
    \A req_id \in IdSpace :
        /\ Cardinality({t \in RunsOn(req_id) : proc[t].claimed}) <= 1
        /\ \A t \in RunsOn(req_id) :
              ~proc[t].claimed => proc[t].extracts = 0 /\ proc[t].notifies = 0
        /\ SumOver(RunsOn(req_id), [t \in Tasks |-> proc[t].notifies]) <= 1

C4_Step ==
    \A t \in Tasks :
        (proc[t].pc \in {"acquire", "claim"} /\ proc'[t] # proc[t] /\ ~proc'[t].claimed)
            => data' = data

C4_SinglePipeline == [](C4_State) /\ [][C4_Step]_vars

\* two invocations for one id have returned: one ran the whole pipeline and
\* called notify, the other found the transition refused
C4_Witness ==
    \E t1, t2 \in Tasks :
        /\ proc[t1].id = proc[t2].id
        /\ proc[t1].pc = "done" /\ proc[t1].stage = "sent" /\ proc[t1].notifies = 1
        /\ proc[t2].pc = "done" /\ proc[t2].stage = "not_claimed"
        /\ proc[t2].via = "direct"

Holders == {t \in Tasks : proc[t].pc \in {"claim", "extract", "notify", "fail", "sent"}}
InFlightCalls == {t \in Tasks : proc[t].pc \in {"extract", "notify"}}

\* C5: at most 20 process executions hold a limiter slot, and so at most 20
\* extract or notify calls are in flight, however many invocations there are.
C5_AtMostTwentyHolders ==
    /\ Cardinality(Holders) <= 20
    /\ Cardinality(InFlightCalls) <= 20

\* 20 executions hold a slot and a further invocation waits for one
C5_Witness ==
    /\ Cardinality(Holders) = 20
    /\ \E t \in Tasks : proc[t].pc = "acquire"

\* the processing of req_id was triggered: the trigger route answered 202,
\* or process was called for it while it was QUEUED
Triggered(req_id) ==
    \E t \in Tasks :
        /\ proc[t].id = req_id
        /\ \/ proc[t].via = "trigger" /\ proc[t].pc \notin {"idle", "update"}
           \/ proc[t].via = "direct" /\ proc[t].claimed

\* C6: every request whose processing was triggered eventually reaches SENT
\* or FAILED (and, these being final, stays there), given that every external
\* call returns or fails and scheduling is fair.
C6_TriggeredConverges ==
    \A req_id \in IdSpace : Triggered(req_id) ~> Terminal(req_id)

\* C7: process(id) never ends by raising an exception to its caller,
\* whatever the extract and notify calls do.
C7_NeverRaises == \A t \in Tasks : proc[t].pc # "raised"

\* C8: in a run that claimed the request, an unrecovered failure of the
\* extract call leaves the record FAILED with no notify call made, and an
\* unrecovered failure of the notify call leaves the record FAILED.
C8_FailureMeansFailed ==
    \A t \in Tasks :
        (proc[t].claimed /\ Finished(t)) =>
            /\ proc[t].stage = "extract"
                  => status_of(data, proc[t].id) = FAILED /\ proc[t].notifies = 0
            /\ proc[t].stage = "notify" => status_of(data, proc[t].id) = FAILED

\* C9: a run calls notify at most once, and only after extract returned a
\* text from which the sanitizer and the validator produced a canonical
\* notification; a run that ended in SENT called it exactly once, a run that
\* failed at extract, sanitize or validate never called it.
C9_NotifyOnlyAfterValidation ==
    \A t \in Tasks :
        /\ proc[t].notifies <= 1
        /\ proc[t].notifies = 1
              => /\ proc[t].extracts = 1
                 /\ proc[t].payload # NoPayload
                 /\ proc[t].payload.type \in {"email", "sms"}
        /\ proc[t].stage = "sent"
              => proc[t].notifies = 1 /\ status_of(data, proc[t].id) = SENT
        /\ proc[t].stage \in {"extract", "sanitize", "validate"} => proc[t].notifies = 0

\* one run ended in SENT after its one notify call, another was stopped by
\* the validator before any
C9_Witness ==
    /\ \E t \in Tasks : proc[t].pc = "done" /\ proc[t].stage = "sent" /\ proc[t].notifies = 1
    /\ \E t \in Tasks : proc[t].pc = "done" /\ proc[t].stage = "validate"

\* C10: a request that was created and then triggered through the trigger
\* route, and whose run met no failure of the provider and no rejected
\* extraction, ends as SENT.
C10_TriggeredEndsSent ==
    \A t \in Tasks :
        ( /\ proc[t].via = "trigger"
          /\ Finished(t)
          /\ proc[t].stage \notin {"extract", "sanitize", "validate", "notify"}
          /\ RunsOn(proc[t].id) = {t} )
            => status_of(data, proc[t].id) = SENT

Rejecting(t) == proc[t].stage \in {"sanitize", "validate"}

\* C11: a run that claimed the request and whose extract call returned a
\* text the sanitizer or the validator rejects makes exactly one more applied
\* transition, PROCESSING->FAILED, and then stops: it calls notify never,
\* and once it has returned neither it nor the record moves again.
C11_State ==
    \A t \in Tasks :
        Rejecting(t) =>
            /\ proc[t].claimed /\ proc[t].extracts = 1 /\ proc[t].notifies = 0
            /\ proc[t].pc \in {"fail", "done"}
            /\ proc[t].pc = "fail" => status_of(data, proc[t].id) = PROCESSING
            /\ proc[t].pc = "done" => status_of(data, proc[t].id) = FAILED

C11_Step ==
    \A t \in Tasks :
        Rejecting(t) =>
            /\ (proc[t].pc = "fail" /\ proc'[t] # proc[t])
                  => /\ proc'[t].pc = "done"
                     /\ data[proc[t].id].status = PROCESSING
                     /\ data'[proc[t].id].status = FAILED
                     /\ \A i \in DOMAIN data \ {proc[t].id} : data'[i] = data[i]
            /\ (proc[t].pc = "fail" /\ proc'[t] = proc[t])
                  => data'[proc[t].id] = data[proc[t].id]
            /\ proc[t].pc = "done"
                  => proc'[t] = proc[t] /\ data'[proc[t].id] = data[proc[t].id]

C11_RejectedMeansFailedOnce == [](C11_State) /\ [][C11_Step]_vars

\* one run was stopped by the sanitizer and one by the validator, both
\* records are FAILED
C11_Witness ==
    \E t1, t2 \in Tasks :
        /\ proc[t1].pc = "done" /\ proc[t1].stage = "sanitize"
        /\ proc[t2].pc = "done" /\ proc[t2].stage = "validate"
        /\ status_of(data, proc[t1].id) = FAILED
        /\ status_of(data, proc[t2].id) = FAILED

\* the failures the specification calls transient: a rate-limit response,
\* a response of the 5xx class, a failure of the transport
SpecTransient(e) ==
    \/ e.kind = "TransportError"
    \/ e.kind = "HTTPStatusError" /\ (e.code = 429 \/ e.code \in 500..599)

LastAttempt == client.log[Len(client.log)]

\* C12: a client operation makes at most 3 attempts per call; every attempt
\* that was followed by another one failed with a transient condition; a
\* non-transient failure (a 401, say) ends the call at once and leaves it
\* as the error the attempt raised.
C12_RetryCeiling ==
    /\ Len(client.log) <= 3
    /\ \A i \in 1..(Len(client.log) - 1) :
          client.log[i] # NoException /\ SpecTransient(client.log[i])
    /\ (client.log # <<>> /\ LastAttempt # NoException /\ ~SpecTransient(LastAttempt))
          => client.outcome = "raised" /\ client.exc = LastAttempt
    /\ client.outcome = "returned" => LastAttempt = NoException

\* two attempts failed with transient conditions, the third was answered
\* 401 and the call raised that error
C12_Witness ==
    /\ Len(client.log) = 3
    /\ client.outcome = "raised"
    /\ client.exc = [kind |-> "HTTPStatusError", code |-> 401]

\* C13: the client classifies a failure as transient, and so retries it,
\* exactly when it is a 429 response, a response with a status from 500 to
\* 599, or a failure of the transport.
C13_TransientExactly ==
    \A i \in 1..Len(client.log) :
        client.log[i] # NoException =>
            /\ _is_transient_error(client.log[i]) <=> SpecTransient(client.log[i])
            /\ i < 3 => ((i < Len(client.log) \/ client.outcome = "pending")
                            <=> SpecTransient(client.log[i]))

\* C14: create returns an identifier no earlier create returned, stores a
\* record with the given input and status QUEUED under it, and leaves every
\* existing record as it was, whatever transition calls run alongside: a
\* step adds at most one record, never removes or resets one.
C14_CreateIsFresh ==
    [][/\ DOMAIN data \subseteq DOMAIN data'
       /\ Cardinality(DOMAIN data' \ DOMAIN data) <= 1
       /\ \A i \in DOMAIN data' \ DOMAIN data :
             /\ data'[i].status = QUEUED
             /\ data'[i].user_input \in Inputs
             /\ \A j \in DOMAIN data : data'[j] = data[j]
       /\ \A j \in DOMAIN data :
             /\ data'[j].user_input = data[j].user_input
             /\ data'[j].status = QUEUED => data[j].status = QUEUED]_vars

\* a second record was created after the first had been moved to SENT,
\* while a transition call on the first was still pending
C14_Witness ==
    /\ Cardinality(DOMAIN data) = 2
    /\ \E i, j \in DOMAIN data : data[i].status = SENT /\ data[j].status = QUEUED
    /\ \E c \in Callers : caller[c].pc = "called"

Validated == call.fn = "validate_extraction" /\ call.pc = "returned"

\* the aliases of the specification, in priority order
DestinationAliases == <<"to", "recipient", "destination">>
MessageAliases == <<"message", "body", "text">>
ChannelAliases == <<"type", "channel", "method">>

Range(seq) == {seq[i] : i \in 1..Len(seq)}

\* the positions of pairs that hold an alias of the field, and the value
\* under its highest-priority alias present
Holding(pairs, aliases) == {i \in 1..Len(pairs) : lower(pairs[i][1]) \in Range(aliases)}
FirstAlias(pairs, aliases) ==
    aliases[Min({a \in 1..Len(aliases) : \E i \in 1..Len(pairs) : lower(pairs[i][1]) = aliases[a]})]
Resolved(pairs, aliases) ==
    pairs[Max({i \in 1..Len(pairs) : lower(pairs[i][1]) = FirstAlias(pairs, aliases)})][2]

IsText(v) == v.t = "str"
Blank(v) == IsText(v) /\ strip(v.v) = ""

SmsFormat(to) ==
    /\ Len(to) >= 6 /\ Len(to) <= 20
    /\ \A k \in 1..Len(to) :
          \/ Ch(to, k) \in Digits \cup {" ", "-"}
          \/ Ch(to, k) = "+" /\ k = 1

\* C16: for channel "sms" validate accepts a destination only if it has 6
\* to 20 characters, all of them digits, spaces and hyphens apart from an
\* optional plus sign, which can only be the first character.
C16_SmsDestination ==
    (Validated /\ call.out.ok /\ call.out.v.type = "sms") => SmsFormat(call.out.v.to)

\* C17: the destination is the value under the highest-priority alias
\* present (to, recipient, destination, compared without case); if that
\* value is not text or trims to empty, validate returns none whatever a
\* lower-priority alias holds.  The channel is resolved the same way over
\* type, channel, method and the message over message, body, text.
C17_FirstAliasWins ==
    Validated =>
        /\ (Holding(call.arg, DestinationAliases) # {}
              /\ (~IsText(Resolved(call.arg, DestinationAliases))
                    \/ Blank(Resolved(call.arg, DestinationAliases))))
              => ~call.out.ok
        /\ (Holding(call.arg, ChannelAliases) # {}
              /\ ~IsText(Resolved(call.arg, ChannelAliases)))
              => ~call.out.ok
        /\ call.out.ok =>
              /\ call.out.v.to = strip(Resolved(call.arg, DestinationAliases).v)
              /\ call.out.v.type = lower(strip(Resolved(call.arg, ChannelAliases).v))
              /\ Holding(call.arg, MessageAliases) # {}
              /\ call.out.v.message = strip(py_str(Resolved(call.arg, MessageAliases)))

\* the mapping has exactly one alias of each field and nothing else
OneAliasEach(pairs) ==
    /\ Len(pairs) = 3
    /\ Cardinality(Holding(pairs, DestinationAliases)) = 1
    /\ Cardinality(Holding(pairs, MessageAliases)) = 1
    /\ Cardinality(Holding(pairs, ChannelAliases)) = 1

CanonicalKey(k) ==
    IF lower(k) \in Range(DestinationAliases) THEN "to"
    ELSE IF lower(k) \in Range(MessageAliases) THEN "message"
    ELSE "type"

Respelled(pairs) == [i \in 1..Len(pairs) |-> <<CanonicalKey(pairs[i][1]), pairs[i][2]>>]

\* C18: for a mapping with exactly one destination alias, one message alias
\* and one channel alias, the result of validate does not depend on which
\* alias or which upper/lower-case spelling each key uses: it is the result
\* for the same values under to, message, type.
C18_KeySpellingInvariant ==
    (Validated /\ OneAliasEach(call.arg))
        => call.out = validate_extraction(Respelled(call.arg))

\* {"Recipient": "jane@co.io", "Body": "hi", "Channel": "email"} was accepted
C18_Witness ==
    /\ Validated
    /\ call.arg = << <<"Recipient", Str("jane@co.io")>>, <<"Body", Str("hi")>>,
                     <<"Channel", Str("email")>> >>
    /\ call.out = Some([to |-> "jane@co.io", message |-> "hi", type |-> "email"])

Sanitized == call.fn = "sanitize_llm_output" /\ call.pc = "returned"

\* C19: for a well-formed JSON object J, string values with backticks or
\* braces included, and any text around it, sanitize of a text that holds J
\* in a markdown fence (tagged json or not) returns the mapping that the
\* strict parse of J gives.
C19_FencedRoundTrip ==
    (Sanitized /\ call.inner # "")
        => call.out = Some(json_loads(call.inner).v.v)

\* the text holds a fenced block: a fence with another fence after it
HasFencedBlock(text) ==
    \E i, j \in 1..Len(text) :
        /\ i + 3 <= j
        /\ starts_with(text, Fence, i)
        /\ starts_with(text, Fence, j)

\* the scan of the specification from index i on: depth counts the open
\* braces, q is the quote of the string the scan is in ("" outside)
RECURSIVE DepthScan(_, _, _, _, _)
DepthScan(text, start, i, depth, q) ==
    IF i > Len(text) THEN None
    ELSE IF q # ""
    THEN IF Ch(text, i) = "\\" THEN DepthScan(text, start, i + 2, depth, q)
         ELSE IF Ch(text, i) = q THEN DepthScan(text, start, i + 1, depth, "")
         ELSE DepthScan(text, start, i + 1, depth, q)
    ELSE IF Ch(text, i) = "{" THEN DepthScan(text, start, i + 1, depth + 1, "")
    ELSE IF Ch(text, i) = "}"
    THEN IF depth = 1 THEN Some(SubSeq(text, start, i))
         ELSE DepthScan(text, start, i + 1, depth - 1, "")
    ELSE IF Ch(text, i) \in {"\"", "'"} THEN DepthScan(text, start, i + 1, depth, Ch(text, i))
    ELSE DepthScan(text, start, i + 1, depth, "")

FirstBrace(text) == find_from(text, "{", 1)

\* C20: for a text without a fenced block the candidate is the substring
\* from the first { to the } that brings the brace depth back to 0, braces
\* inside single- or double-quoted strings not counting and a quote after a
\* backslash not closing its string; if there is no { or the depth never
\* comes back to 0, sanitize returns none.
C20_BalancedCandidate ==
    (Sanitized /\ ~HasFencedBlock(call.arg)) =>
        /\ call.candidate =
              IF FirstBrace(call.arg) = 0 THEN None
              ELSE DepthScan(call.arg, FirstBrace(call.arg), FirstBrace(call.arg), 0, "")
        /\ ~call.candidate.ok => ~call.out.ok

\* the closing brace inside a string was passed over
C20_Witness ==
    /\ Sanitized
    /\ call.arg = "Sure: {\"a\":\"}\"} ok"
    /\ call.candidate = Some("{\"a\":\"}\"}")
    /\ call.out.ok

\* the text with every single quote replaced by a double quote
Requoted(text) ==
    join([i \in 1..Len(text) |-> IF Ch(text, i) = "'" THEN "\"" ELSE Ch(text, i)])

\* C21: for a brace-delimited object whose keys and values are all
\* single-quoted strings without quote or backslash characters, sanitize
\* returns the mapping that the strict parse of the object gives once every
\* single quote is replaced by a double quote: no key or value is added,
\* dropped or altered.
C21_SingleQuotedRepair ==
    (Sanitized /\ call.arg \in {input.text : input \in SingleQuotedInputs})
        => call.out = Some(json_loads(Requoted(call.arg)).v.v)

\* a run that has not yet asked for its record, on a record that is no
\* longer QUEUED
Refused(t) ==
    /\ proc[t].pc \in {"acquire", "claim"}
    /\ status_of(data, proc[t].id) \in {PROCESSING, SENT, FAILED}

\* a run scheduled by the trigger route finds its record marked, and a run
\* that ended without its record made no call
C22_State ==
    \A t \in Tasks :
        /\ (proc[t].via = "trigger" /\ proc[t].pc \in {"acquire", "claim"}) => Refused(t)
        /\ (proc[t].pc = "done" /\ proc[t].stage = "not_claimed")
              => proc[t].extracts = 0 /\ proc[t].notifies = 0 /\ ~proc[t].claimed

\* such a run goes on to its return only, and its own steps write nothing
C22_Step ==
    \A t \in Tasks :
        Refused(t) =>
            /\ proc'[t].pc \in {"acquire", "claim", "done"}
            /\ proc'[t].pc = "done" => proc'[t].stage = "not_claimed"
            /\ proc'[t].extracts = 0 /\ proc'[t].notifies = 0
            /\ proc'[t] # proc[t] => data' = data

\* C22: process(id) invoked on a record that is already PROCESSING, SENT or
\* FAILED returns normally without a call of extract or notify and leaves
\* the record's status as it is; the record that the trigger route marked
\* PROCESSING before the run is such a record.
C22_NonQueuedIsNoOp == [](C22_State) /\ [][C22_Step]_vars

\* a run scheduled by the trigger route returned without its record, which
\* is still PROCESSING
C22_Witness ==
    \E t \in Tasks :
        /\ proc[t].via = "trigger"
        /\ proc[t].pc = "done"
        /\ proc[t].stage = "not_claimed"
        /\ proc[t].extracts = 0
        /\ status_of(data, proc[t].id) = PROCESSING

\* a run that waits for its slot on an id the ledger does not hold
Unknown(t) == proc[t].pc = "acquire" /\ ~repo_exists(data, proc[t].id)

\* a run that returned on an absent id made no call
C23_State ==
    \A t \in Tasks :
        (proc[t].pc = "done" /\ proc[t].stage = "absent")
            => proc[t].extracts = 0 /\ proc[t].notifies = 0 /\ ~proc[t].claimed

\* the step of such a run is its return: the ledger and the count of free
\* slots are after it what they were before it
C23_Step ==
    \A t \in Tasks :
        (Unknown(t) /\ proc'[t] # proc[t]) =>
            /\ proc'[t].pc = "done"
            /\ proc'[t].stage = "absent"
            /\ proc'[t].extracts = 0 /\ proc'[t].notifies = 0
            /\ data' = data
            /\ sem' = sem

\* C23: process(id) invoked with an id the ledger does not hold returns
\* normally, creates no record, changes no record's status, makes no
\* extract or notify call, and releases its limiter slot.
C23_AbsentIsNoOp == [](C23_State) /\ [][C23_Step]_vars

\* a run returned on an absent id while another run holds a slot, and no
\* record was created for it
C23_Witness ==
    \E t \in Tasks :
        /\ proc[t].pc = "done"
        /\ proc[t].stage = "absent"
        /\ ~repo_exists(data, proc[t].id)
        /\ sem = SemaphoreSlots - 1

\* the runs the trigger route has scheduled
Scheduled == {t \in Tasks : proc[t].via = "trigger" /\ proc[t].pc # "update"}

\* what one step of the trigger handler does, by the status it observed
C24_Step ==
    /\ \A req_id \in IdSpace :
          Trigger(req_id) =>
            CASE status_of(data, req_id) = "absent" ->
                    http' = 404 /\ UNCHANGED <<data, proc, sem>>
              [] status_of(data, req_id) \in {PROCESSING, SENT, FAILED} ->
                    http' = 200 /\ UNCHANGED <<data, proc, sem>>
              [] OTHER ->
                    http' = http /\ Scheduled' = Scheduled /\ UNCHANGED <<data, sem>>
    /\ \A t \in Tasks :
          TriggerUpdate(t) =>
            /\ http' = 202
            /\ status_of(data, proc[t].id) = QUEUED
                  => status_of(data', proc[t].id) = PROCESSING
            /\ status_of(data', proc[t].id) \in {PROCESSING, SENT, FAILED}
            /\ \A other \in DOMAIN data \ {proc[t].id} : data'[other] = data[other]
            /\ t \notin Scheduled
            /\ Scheduled' = Scheduled \cup {t}
            /\ proc'[t].id = proc[t].id
            /\ proc'[t].pc = "acquire"
            /\ \A u \in Tasks \ {t} : proc'[u] = proc[u]

\* C24: the trigger operation answers 404 for an unknown id and changes
\* nothing; answers 200 for a record observed PROCESSING, SENT or FAILED,
\* changes nothing and schedules no run; and for a record observed QUEUED
\* marks the record PROCESSING before it responds, schedules exactly one
\* run of the orchestrator and answers 202.
C24_TriggerAnswers == [][C24_Step]_vars

\* 202 was answered for a record that is marked, with its one run scheduled
C24_Witness ==
    /\ http = 202
    /\ \E t \in Tasks :
          /\ Scheduled = {t}
          /\ proc[t].pc = "acquire"
          /\ status_of(data, proc[t].id) = PROCESSING

\* C25: the ledger's lock is never held while an extract or notify call is
\* in flight: in every reachable state where a run awaits an external call
\* the lock is free, so a create and a transition or update_status call on
\* any id can complete while the call is pending.
C25_LockFreeDuringCalls ==
    InFlightCalls # {} =>
        /\ ~lock
        /\ \A c \in Callers : caller[c].pc = "called" => ENABLED Exec(c)
        /\ IdSpace \ DOMAIN data # {} => ENABLED (\E user_input \in Inputs : Create(user_input))

\* while a run awaits its extract call, a caller's transition of the run's
\* record from PROCESSING to FAILED was applied
C25_Witness ==
    \E t \in Tasks, c \in Callers :
        /\ proc[t].pc = "extract"
        /\ ~lock
        /\ caller[c] = [pc |-> "returned", op |-> "transition", id |-> proc[t].id,
                        target |-> FAILED, seen |-> PROCESSING, ret |-> "True"]

\* no slot is free and every holder awaits a response that never comes
Stuck == sem = 0 /\ budget = 0 /\ Holders \subseteq InFlightCalls

\* the free slots and the runs between acquire and release add up to 20
C26_State == sem + Cardinality(Holders) = SemaphoreSlots

\* an invocation that finds no free slot stays where it is, and a run that
\* ends by any exit gives its slot back in the step that ends it
C26_Step ==
    \A t \in Tasks :
        /\ (proc[t].pc = "acquire" /\ sem = 0) => proc'[t].pc = "acquire"
        /\ (t \in Holders /\ proc'[t].pc \in {"done", "raised"}) => sem' = sem + 1

\* C26: a process invocation that arrives while 20 executions hold slots is
\* not rejected: it waits, and it eventually acquires a slot provided every
\* external call eventually returns or fails.  Every invocation releases its
\* slot on every exit path (absent id, transition not applied, stage failure,
\* success, exception), so the free slots are 20 again whenever no
\* invocation is in progress.
C26_WaitsAndReleases ==
    /\ [](C26_State)
    /\ [][C26_Step]_vars
    /\ \A t \in SaturatedTasks \ (1..SemaphoreSlots) :
          (proc[t].pc = "acquire") ~> (proc[t].pc # "acquire" \/ Stuck)

\* an invocation that waited while all slots were held has run to its
\* call, after a holder left by an exception
C26_Witness ==
    /\ \E t \in Tasks : t <= SemaphoreSlots /\ proc[t].pc = "raised"
    /\ \E t \in Tasks : t > SemaphoreSlots /\ proc[t].pc = "extract"
    /\ sem = 0

\* C27: across any sequence of create, transition, update_status, trigger
\* and process operations a record once created is never removed (exists
\* stays true, get never becomes absent) and its raw user input never
\* changes: only its status field is ever written.
C27_RecordsKept ==
    [][\A req_id \in DOMAIN data :
          /\ repo_exists(data', req_id)
          /\ repo_get(data', req_id).ok
          /\ repo_get(data', req_id).v.user_input = data[req_id].user_input
          /\ [data'[req_id] EXCEPT !.status = data[req_id].status] = data[req_id]]_vars

\* two records of different texts, each with the text it was created with,
\* one of them triggered, processed and sent
C27_Witness ==
    /\ DOMAIN data = {1, 2}
    /\ data[1].user_input = "email jane@co.io saying hi"
    /\ data[2].user_input = "text +34 600 100 200: late"
    /\ data[1].status = QUEUED
    /\ data[2].status = SENT
    /\ http = 200
    /\ \E t \in Tasks : proc[t].pc = "done" /\ proc[t].stage = "sent" /\ proc[t].id = 2

====
